---------------------------- MODULE Spec2Model ----------------------------
(***************************************************************************)
(* A model of the concept modules (Itemizing, Tracking, Profiling,         *)
(* Messaging) and of the routes that compose them.                         *)
(*                                                                         *)
(* Conventions                                                             *)
(*  - a collection is a set of documents, each with a unique _id;          *)
(*  - ObjectIds are the integers 1, 2, ... handed out in creation order,   *)
(*    NoId stands for an absent (undefined / null) ObjectId;               *)
(*  - Undef stands for a JavaScript undefined (or the null it is stored    *)
(*    as) in a string-valued position;                                     *)
(*  - a message's flags draft / sent / received are TRUE when the stored   *)
(*    field is true and FALSE when it is absent, undefined or null (the    *)
(*    code only ever tests them for truthiness);                           *)
(*  - the three message timestamps are "date" when set, Undef otherwise;   *)
(*  - the store-assigned dateCreated / dateUpdated are left out.           *)
(***************************************************************************)
EXTENDS Integers, FiniteSets, Sequences, TLC

VARIABLES items, goals, profiles, messages, nextId, idLimit, now, ret, pc

vars == <<items, goals, profiles, messages, nextId, idLimit, now, ret, pc>>

(***************************************************************************)
(* Bounds and value domains                                                *)
(***************************************************************************)
\* the number of documents a run creates (over all collections): idLimit is
\* MaxIds, or MaxIdsDeep in the specifications that follow one more creation
MaxIds == 2

MaxIdsDeep == 3

NoId == 0

Undef == "undefined"

Users == {"u1", "u2"}

Texts == {"hi", "yo"}

Attachments == {"f1"}

OptTexts == Texts \cup {Undef}

OptUsers == Users \cup {Undef}

OptAttachments == Attachments \cup {Undef}

\* due dates before and after the time of the run
Dates == {0, 2}

(***************************************************************************)
(* Errors: the class thrown, and the kind (base class) it belongs to.      *)
(***************************************************************************)
Ok == "ok"

Kind(err) ==
  CASE err \in {"NotFoundError"} -> "NotFound"
    [] err \in {"NotAllowedError", "UserNotSenderError", "UserNotMatchError",
                "NotADraftError", "MessageNotSentError",
                "ItemCreatorNotMatchError", "InvalidStatusError",
                "GoalExecutorNotMatchError", "UserProfileExistsError",
                "ProfileDoesNotExistsError"} -> "NotAllowed"
    [] err \in {"BadValuesError"} -> "BadValues"
    [] err \in {"AssertionError"} -> "AssertionError"
    [] OTHER -> Ok

(***************************************************************************)
(* The document store (DocCollection)                                      *)
(***************************************************************************)
Exists(coll, id) == \E r \in coll : r._id = id

ReadOne(coll, id) == CHOOSE r \in coll : r._id = id

DeleteOne(coll, id) == {r \in coll : r._id # id}

\* the first document (in insertion order) of a set of matching documents
First(matching) == CHOOSE r \in matching : \A q \in matching : r._id <= q._id

(***************************************************************************)
(* The database a request works on, and the result of an operation         *)
(***************************************************************************)
DB == [items |-> items, goals |-> goals, profiles |-> profiles,
       messages |-> messages, nextId |-> nextId]

Res(err, db) == [err |-> err, db |-> db]

\* what is kept of a call: the arguments are kept for a call that succeeds
Call(op, user, id, args, err) ==
  [op |-> op, user |-> user, id |-> id,
   args |-> IF err = "ok" THEN args ELSE <<>>, err |-> err]

\* { $set: update } applied to document r
SetFields(r, update) ==
  [f \in DOMAIN r |-> IF f \in DOMAIN update THEN update[f] ELSE r[f]]

\* partialUpdateOne({ _id }, update)
PartialUpdateOne(coll, id, update) ==
  {IF r._id = id THEN SetFields(r, update) ELSE r : r \in coll}

(***************************************************************************)
(* MessagingConcept                                                        *)
(***************************************************************************)
MessageDoc(id, from, to, message, attachment) ==
  [_id |-> id, from |-> from, to |-> to, message |-> message,
   attachment |-> attachment,
   draft |-> FALSE, timeDrafted |-> Undef,
   sent |-> FALSE, timeSent |-> Undef, receivedMessageID |-> NoId,
   received |-> FALSE, timeReceived |-> Undef, sentMessageID |-> NoId]

Messaging_draft(db, from, to, message, attachment) ==
  LET doc == [MessageDoc(db.nextId, from, to, message, attachment)
                EXCEPT !.draft = TRUE, !.timeDrafted = "date"]
  IN  Res(Ok, [db EXCEPT !.messages = @ \cup {doc}, !.nextId = @ + 1])

\* the new contact is written to from as well
Messaging_editDraft_from(db, id, message, to, attachment) ==
  IF ~Exists(db.messages, id) THEN Res("AssertionError", db)
  ELSE
    LET messageObj == ReadOne(db.messages, id)
        updatedMessage == IF message # Undef THEN message ELSE messageObj.message
        updatedContact == IF to # Undef THEN to ELSE messageObj.to
        updatedAttachment ==
          IF attachment # Undef THEN attachment ELSE messageObj.attachment
    IN  Res(Ok, [db EXCEPT !.messages =
              PartialUpdateOne(@, id,
                [message |-> updatedMessage, to |-> updatedContact,
                 from |-> updatedContact,
                 attachment |-> updatedAttachment])])

Messaging_editDraft(db, id, message, to, attachment) ==
  IF ~Exists(db.messages, id) THEN Res("AssertionError", db)
  ELSE
    LET messageObj == ReadOne(db.messages, id)
        updatedMessage == IF message # Undef THEN message ELSE messageObj.message
        updatedContact == IF to # Undef THEN to ELSE messageObj.to
        updatedAttachment ==
          IF attachment # Undef THEN attachment ELSE messageObj.attachment
    IN  Res(Ok, [db EXCEPT !.messages =
              PartialUpdateOne(@, id,
                [message |-> updatedMessage, to |-> updatedContact,
                 attachment |-> updatedAttachment])])

Messaging_deleteDraft(db, user, id) ==
  Res(Ok, [db EXCEPT !.messages = DeleteOne(@, id)])

\* the received copy is created without its sentMessageID
Messaging_send_noBackLink(db, id, from, to) ==
  IF ~Exists(db.messages, id) THEN Res("AssertionError", db)
  ELSE
    LET messageObj == ReadOne(db.messages, id)
        receivedMessageID == db.nextId
        receivedDoc ==
          [MessageDoc(receivedMessageID, from, to, messageObj.message,
                      messageObj.attachment)
             EXCEPT !.received = TRUE, !.timeReceived = "date"]
    IN  Res(Ok, [db EXCEPT
              !.messages =
                PartialUpdateOne(@ \cup {receivedDoc}, id,
                  [draft |-> FALSE, timeDrafted |-> Undef,
                   sent |-> TRUE, timeSent |-> "date",
                   receivedMessageID |-> receivedMessageID]),
              !.nextId = @ + 1])

Messaging_send(db, id, from, to) ==
  IF ~Exists(db.messages, id) THEN Res("AssertionError", db)
  ELSE
    LET messageObj == ReadOne(db.messages, id)
        receivedMessageID == db.nextId
        receivedDoc ==
          [MessageDoc(receivedMessageID, from, to, messageObj.message,
                      messageObj.attachment)
             EXCEPT !.received = TRUE, !.timeReceived = "date",
                    !.sentMessageID = id]
    IN  Res(Ok, [db EXCEPT
              !.messages =
                PartialUpdateOne(@ \cup {receivedDoc}, id,
                  [draft |-> FALSE, timeDrafted |-> Undef,
                   sent |-> TRUE, timeSent |-> "date",
                   receivedMessageID |-> receivedMessageID]),
              !.nextId = @ + 1])

\* the second partialUpdateOne is dropped
Messaging_editSent_senderOnly(db, id, message, attachment) ==
  IF ~Exists(db.messages, id) THEN Res("AssertionError", db)
  ELSE
    LET messageObj == ReadOne(db.messages, id)
        updatedMessage == IF message # Undef THEN message ELSE messageObj.message
        updatedAttachment ==
          IF attachment # Undef THEN attachment ELSE messageObj.attachment
    IN  Res(Ok, [db EXCEPT !.messages =
              PartialUpdateOne(@, id,
                [message |-> updatedMessage,
                 attachment |-> updatedAttachment])])

Messaging_editSent(db, id, message, attachment) ==
  IF ~Exists(db.messages, id) THEN Res("AssertionError", db)
  ELSE
    LET messageObj == ReadOne(db.messages, id)
        updatedMessage == IF message # Undef THEN message ELSE messageObj.message
        updatedAttachment ==
          IF attachment # Undef THEN attachment ELSE messageObj.attachment
        update == [message |-> updatedMessage,
                   attachment |-> updatedAttachment]
    IN  Res(Ok, [db EXCEPT !.messages =
              PartialUpdateOne(PartialUpdateOne(@, id, update),
                               messageObj.receivedMessageID, update)])

\* the sender test is made against the recipient
Messaging_assertUserIsSender_to(db, user, id) ==
  IF ~Exists(db.messages, id) THEN Res("NotFoundError", db)
  ELSE IF ReadOne(db.messages, id).to # user
       THEN Res("UserNotSenderError", db)
       ELSE Res(Ok, db)

Messaging_assertUserIsSender(db, user, id) ==
  IF ~Exists(db.messages, id) THEN Res("NotFoundError", db)
  ELSE IF ReadOne(db.messages, id).from # user
       THEN Res("UserNotSenderError", db)
       ELSE Res(Ok, db)

Messaging_assertSenderOrReceiver(db, user, id) ==
  IF ~Exists(db.messages, id) THEN Res("NotFoundError", db)
  ELSE LET message == ReadOne(db.messages, id)
       IN  IF message.from # user /\ message.to = user
           THEN Res("UserNotMatchError", db)
           ELSE Res(Ok, db)

\* deleteOne({ receivedMessageID }): the first document whose
\* receivedMessageID field has that value
DeleteOneByReceivedMessageID(coll, rid) ==
  LET matching == {r \in coll : r.receivedMessageID = rid}
  IN  IF matching = {} THEN coll ELSE coll \ {First(matching)}

Messaging_deleteSent(db, user, id) ==
  LET a == Messaging_assertUserIsSender(db, user, id)
  IN  IF a.err # Ok THEN a
      ELSE
        LET receiverMessageID == ReadOne(db.messages, id).receivedMessageID
        IN  IF receiverMessageID = NoId THEN Res("AssertionError", db)
            ELSE Res(Ok, [db EXCEPT !.messages =
                     DeleteOneByReceivedMessageID(DeleteOne(@, id),
                                                  receiverMessageID)])

Messaging_read(db, id) == ReadOne(db.messages, id)

(***************************************************************************)
(* ItemizingConcept                                                        *)
(***************************************************************************)
STATUS_TYPES == {"complete", "in-progress"}

\* JavaScript falsiness of a string | undefined
Falsy(x) == x \in {Undef, ""}

Itemizing_create(db, creator, title, description, status) ==
  LET doc == [_id |-> db.nextId, creator |-> creator, title |-> title,
              description |-> description, status |-> status]
  IN  Res(Ok, [db EXCEPT !.items = @ \cup {doc}, !.nextId = @ + 1])

Itemizing_update(db, id, title, description, status) ==
  IF ~Exists(db.items, id) THEN Res("AssertionError", db)
  ELSE
    LET item == ReadOne(db.items, id)
        updateFields ==
          [title |-> IF title = Undef THEN item.title ELSE title,
           description |->
             IF description = Undef THEN item.description ELSE description,
           status |-> IF status = Undef THEN item.status ELSE status]
    IN  Res(Ok, [db EXCEPT !.items = PartialUpdateOne(@, id, updateFields)])

Itemizing_delete(db, id) ==
  Res(Ok, [db EXCEPT !.items = DeleteOne(@, id)])

Itemizing_assertCreatorIsUser(db, id, user) ==
  IF ~Exists(db.items, id) THEN Res("NotFoundError", db)
  ELSE IF ReadOne(db.items, id).creator # user
       THEN Res("ItemCreatorNotMatchError", db)
       ELSE Res(Ok, db)

Itemizing_assertValidStatus(db, status) ==
  IF ~Falsy(status) /\ status \notin STATUS_TYPES
  THEN Res("InvalidStatusError", db)
  ELSE Res(Ok, db)

Itemizing_assertValidItemDetails(db, title, description) ==
  IF Falsy(title) \/ Falsy(description)
  THEN Res("BadValuesError", db)
  ELSE Res(Ok, db)

(***************************************************************************)
(* TrackingConcept.  A Date is a natural number, NoDate an undefined one.  *)
(***************************************************************************)
GOAL_TYPES == {"complete", "pending", "past due"}

NoDate == -1

Tracking_create_dueNow(db, currentDate, executor, title, due, description) ==
  LET status == IF due <= currentDate THEN "past due" ELSE "pending"
      doc == [_id |-> db.nextId, executor |-> executor, title |-> title,
              description |-> description, status |-> status, due |-> due]
  IN  Res(Ok, [db EXCEPT !.goals = @ \cup {doc}, !.nextId = @ + 1])

Tracking_create(db, currentDate, executor, title, due, description) ==
  LET status == IF due < currentDate THEN "past due" ELSE "pending"
      doc == [_id |-> db.nextId, executor |-> executor, title |-> title,
              description |-> description, status |-> status, due |-> due]
  IN  Res(Ok, [db EXCEPT !.goals = @ \cup {doc}, !.nextId = @ + 1])

Tracking_viewOneGoal_due(db, id) ==
  IF Exists(db.goals, id) THEN ReadOne(db.goals, id).due ELSE NoDate

Tracking_edit(db, id, title, description, status, due) ==
  IF ~Exists(db.goals, id) THEN Res("NotFoundError", db)
  ELSE
    LET goal == ReadOne(db.goals, id)
        updateFields ==
          [title |-> IF title = Undef THEN goal.title ELSE title,
           description |->
             IF description = Undef THEN goal.description ELSE description,
           status |-> IF status = Undef THEN goal.status ELSE status,
           due |-> IF due = NoDate THEN goal.due ELSE due]
    IN  Res(Ok, [db EXCEPT !.goals = PartialUpdateOne(@, id, updateFields)])

Tracking_delete(db, id) ==
  Res(Ok, [db EXCEPT !.goals = DeleteOne(@, id)])

Tracking_assertExecutorIsUser(db, id, user) ==
  IF ~Exists(db.goals, id) THEN Res("NotFoundError", db)
  ELSE IF ReadOne(db.goals, id).executor # user
       THEN Res("GoalExecutorNotMatchError", db)
       ELSE Res(Ok, db)

(***************************************************************************)
(* ProfilingConcept.  Its documents are found by their user field: the     *)
(* store's readOne / partialUpdateOne / deleteOne act on the first match.  *)
(***************************************************************************)
ByUser(coll, user) == {r \in coll : r.user = user}

ExistsByUser(coll, user) == ByUser(coll, user) # {}

ReadOneByUser(coll, user) == First(ByUser(coll, user))

PartialUpdateOneByUser(coll, user, update) ==
  IF ExistsByUser(coll, user)
  THEN PartialUpdateOne(coll, ReadOneByUser(coll, user)._id, update)
  ELSE coll

DeleteOneByUser(coll, user) ==
  IF ExistsByUser(coll, user)
  THEN coll \ {ReadOneByUser(coll, user)}
  ELSE coll

Profiling_create(db, user, name, contact, bio) ==
  LET doc == [_id |-> db.nextId, user |-> user, name |-> name,
              contact |-> contact, bio |-> bio]
  IN  Res(Ok, [db EXCEPT !.profiles = @ \cup {doc}, !.nextId = @ + 1])

\* the update written by Profiling.update, given the profile it has read
Profiling_updateFields(userProfile, name, contact, bio) ==
  [name |-> IF name = Undef THEN userProfile.name ELSE name,
   contact |-> IF contact = Undef THEN userProfile.contact ELSE contact,
   bio |-> IF bio = Undef THEN userProfile.bio ELSE bio]

Profiling_update(db, user, name, contact, bio) ==
  IF ~ExistsByUser(db.profiles, user) THEN Res("AssertionError", db)
  ELSE
    LET userProfile == ReadOneByUser(db.profiles, user)
        updateFields == Profiling_updateFields(userProfile, name, contact, bio)
    IN  Res(Ok, [db EXCEPT !.profiles =
                   PartialUpdateOneByUser(@, user, updateFields)])

Profiling_delete(db, user) ==
  Res(Ok, [db EXCEPT !.profiles = DeleteOneByUser(@, user)])

Profiling_assertProfileExists(db, user) ==
  IF ~ExistsByUser(db.profiles, user)
  THEN Res("ProfileDoesNotExistsError", db)
  ELSE Res(Ok, db)

\* the check is dropped
Profiling_assertProfileDoesNotExist_off(db, user) == Res(Ok, db)

Profiling_assertProfileDoesNotExist(db, user) ==
  IF ExistsByUser(db.profiles, user)
  THEN Res("UserProfileExistsError", db)
  ELSE Res(Ok, db)

(***************************************************************************)
(* Routes.  `user` is the session user (Sessioning.getUser(session)).      *)
(* A route is a sequence of awaited concept calls; the first that throws   *)
(* ends the request with the database as it then is.                       *)
(***************************************************************************)
Routes_createTask(db, user, title, description) ==
  LET v == Itemizing_assertValidItemDetails(db, title, description)
  IN  IF v.err # Ok THEN v
      ELSE Itemizing_create(db, user, title, description, "in-progress")

Routes_updateTask(db, user, id, title, description, status) ==
  LET a == Itemizing_assertCreatorIsUser(db, id, user)
      v == Itemizing_assertValidStatus(db, status)
  IN  IF a.err # Ok THEN a
      ELSE IF v.err # Ok THEN v
      ELSE Itemizing_update(db, id, title, description, status)

Routes_deleteTask(db, user, id) ==
  LET a == Itemizing_assertCreatorIsUser(db, id, user)
  IN  IF a.err # Ok THEN a ELSE Itemizing_delete(db, id)

Routes_createProfile(db, user, name, contact, bio) ==
  LET a == Profiling_assertProfileDoesNotExist(db, user)
  IN  IF a.err # Ok THEN a ELSE Profiling_create(db, user, name, contact, bio)

Routes_deleteProfile(db, user) ==
  LET a == Profiling_assertProfileExists(db, user)
  IN  IF a.err # Ok THEN a ELSE Profiling_delete(db, user)

Routes_updateProfile(db, user, name, contact, bio) ==
  LET a == Profiling_assertProfileExists(db, user)
  IN  IF a.err # Ok THEN a ELSE Profiling_update(db, user, name, contact, bio)

Routes_createGoal(db, currentDate, user, title, due, description) ==
  Tracking_create(db, currentDate, user, title, due, description)

Routes_updateGoal(db, user, id, title, description, status, due) ==
  LET a == Tracking_assertExecutorIsUser(db, id, user)
      parsedDueDate == IF due # NoDate THEN due
                       ELSE Tracking_viewOneGoal_due(db, id)
  IN  IF a.err # Ok THEN a
      ELSE Tracking_edit(db, id, title, description, status, parsedDueDate)

\* contactUser is resolved to the id of an existing user; no attachment
Routes_writeMessage(db, user, contactUser, message) ==
  Messaging_draft(db, user, contactUser, message, Undef)

Routes_sendMessage(db, user, id) ==
  IF ~Exists(db.messages, id) THEN Res("NotAllowedError", db)
  ELSE
    LET messageObj == Messaging_read(db, id)
        a == Messaging_assertUserIsSender(db, user, id)
    IN  IF a.err # Ok THEN a
        ELSE IF ~messageObj.draft THEN Res("NotADraftError", db)
        ELSE Messaging_send(db, id, user, messageObj.to)

\* new ObjectId(contact): the id the string names, or, for an undefined
\* argument, a newly generated id, which is no user's
FreshObjectId == "ObjectId()"

NewObjectId(contact) == IF contact = Undef THEN FreshObjectId ELSE contact

Routes_editMessage(db, user, id, contact, message) ==
  IF ~Exists(db.messages, id) THEN Res("NotFoundError", db)
  ELSE
    LET messageObj == Messaging_read(db, id)
        a == Messaging_assertUserIsSender(db, user, id)
        isSent == messageObj.sent
    IN  IF a.err # Ok THEN a
        ELSE IF isSent /\ ~Falsy(contact) THEN Res("NotAllowedError", db)
        ELSE IF isSent THEN Messaging_editSent(db, id, message, Undef)
        ELSE Messaging_editDraft(db, id, message, NewObjectId(contact), Undef)

\* the sender test is left out
Routes_deleteMessage_noSenderTest(db, user, id) ==
  LET a == Messaging_assertSenderOrReceiver(db, user, id)
  IN  IF a.err # Ok THEN a
      ELSE IF ~Exists(db.messages, id) THEN Res("NotFoundError", db)
      ELSE IF Messaging_read(db, id).sent
           THEN Messaging_deleteSent(db, user, id)
           ELSE Messaging_deleteDraft(db, user, id)

Routes_deleteMessage(db, user, id) ==
  LET a == Messaging_assertSenderOrReceiver(db, user, id)
      b == Messaging_assertUserIsSender(db, user, id)
  IN  IF a.err # Ok THEN a
      ELSE IF ~Exists(db.messages, id) THEN Res("NotFoundError", db)
      ELSE IF b.err # Ok THEN b
      ELSE IF Messaging_read(db, id).sent
           THEN Messaging_deleteSent(db, user, id)
           ELSE Messaging_deleteDraft(db, user, id)

(***************************************************************************)
(* State.  Calls are made one at a time: ret is the call that has just     *)
(* ended and how it ended, NoCall once its result has been taken (Return). *)
(* pc holds the requests in flight (the interleaved specifications).       *)
(***************************************************************************)
NoCall == Call("none", Undef, NoId, <<>>, Ok)

InitWith(limit) ==
  /\ items = {}
  /\ goals = {}
  /\ profiles = {}
  /\ messages = {}
  /\ nextId = 1
  /\ idLimit = limit
  /\ now = 1
  /\ ret = NoCall
  /\ pc = <<>>

Init == InitWith(MaxIds)

InitDeep == InitWith(MaxIdsDeep)

\* the call ends with result res
Do(op, user, id, args, res) ==
  /\ items' = res.db.items
  /\ goals' = res.db.goals
  /\ profiles' = res.db.profiles
  /\ messages' = res.db.messages
  /\ nextId' = res.db.nextId
  /\ ret' = Call(op, user, id, args, res.err)
  /\ UNCHANGED <<idLimit, now, pc>>

\* no call is in progress
Idle == ret = NoCall

CanCreate == nextId <= idLimit

\* the ids a call may name: those handed out so far and one never handed out
SomeIds == 1 .. nextId

Return ==
  /\ ret # NoCall
  /\ ret' = NoCall
  /\ UNCHANGED <<items, goals, profiles, messages, nextId, idLimit, now, pc>>

(***************************************************************************)
(* Calls of the MessagingConcept operations                                *)
(***************************************************************************)
Draft ==
  /\ Idle
  /\ CanCreate
  /\ \E from \in Users, to \in Users, message \in Texts,
        attachment \in OptAttachments :
       Do("draft", Undef, nextId, <<from, to, message, attachment>>,
          Messaging_draft(DB, from, to, message, attachment))

EditDraft ==
  /\ Idle
  /\ \E id \in SomeIds, message \in OptTexts, to \in OptUsers,
        attachment \in OptAttachments :
       Do("editDraft", Undef, id, <<message, to, attachment>>,
          Messaging_editDraft(DB, id, message, to, attachment))

DeleteDraft ==
  /\ Idle
  /\ \E user \in Users, id \in SomeIds :
       Do("deleteDraft", user, id, <<>>, Messaging_deleteDraft(DB, user, id))

Send ==
  /\ Idle
  /\ CanCreate
  /\ \E id \in SomeIds, from \in Users, to \in Users :
       Do("send", Undef, id, <<from, to>>, Messaging_send(DB, id, from, to))

EditSent ==
  /\ Idle
  /\ \E id \in SomeIds, message \in OptTexts, attachment \in OptAttachments :
       Do("editSent", Undef, id, <<message, attachment>>,
          Messaging_editSent(DB, id, message, attachment))

DeleteSent ==
  /\ Idle
  /\ \E user \in Users, id \in SomeIds :
       Do("deleteSent", user, id, <<>>, Messaging_deleteSent(DB, user, id))

AssertUserIsSender ==
  /\ Idle
  /\ \E user \in Users, id \in SomeIds :
       Do("assertUserIsSender", user, id, <<>>,
          Messaging_assertUserIsSender(DB, user, id))

AssertSenderOrReceiver ==
  /\ Idle
  /\ \E user \in Users, id \in SomeIds :
       Do("assertSenderOrReceiver", user, id, <<>>,
          Messaging_assertSenderOrReceiver(DB, user, id))

(***************************************************************************)
(* Calls of the ItemizingConcept, TrackingConcept and ProfilingConcept     *)
(* operations                                                              *)
(***************************************************************************)
ItemCreate ==
  /\ Idle
  /\ CanCreate
  /\ \E creator \in Users, title \in Texts, description \in Texts,
        status \in STATUS_TYPES \cup {Undef} :
       Do("Itemizing.create", Undef, nextId,
          <<creator, title, description, status>>,
          Itemizing_create(DB, creator, title, description, status))

ItemUpdate ==
  /\ Idle
  /\ \E id \in SomeIds, title \in OptTexts, description \in OptTexts,
        status \in STATUS_TYPES \cup {Undef} :
       Do("Itemizing.update", Undef, id, <<title, description, status>>,
          Itemizing_update(DB, id, title, description, status))

ItemDelete ==
  /\ Idle
  /\ \E id \in SomeIds :
       Do("Itemizing.delete", Undef, id, <<>>, Itemizing_delete(DB, id))

AssertCreatorIsUser ==
  /\ Idle
  /\ \E user \in Users, id \in SomeIds :
       Do("assertCreatorIsUser", user, id, <<>>,
          Itemizing_assertCreatorIsUser(DB, id, user))

GoalCreate ==
  /\ Idle
  /\ CanCreate
  /\ \E executor \in Users, title \in Texts, due \in Dates,
        description \in OptTexts :
       Do("Tracking.create", Undef, nextId,
          <<executor, title, due, description>>,
          Tracking_create(DB, now, executor, title, due, description))

GoalEdit ==
  /\ Idle
  /\ \E id \in SomeIds, title \in OptTexts, description \in OptTexts,
        status \in GOAL_TYPES \cup {Undef}, due \in Dates \cup {NoDate} :
       Do("Tracking.edit", Undef, id, <<title, description, status, due>>,
          Tracking_edit(DB, id, title, description, status, due))

GoalDelete ==
  /\ Idle
  /\ \E id \in SomeIds :
       Do("Tracking.delete", Undef, id, <<>>, Tracking_delete(DB, id))

AssertExecutorIsUser ==
  /\ Idle
  /\ \E user \in Users, id \in SomeIds :
       Do("assertExecutorIsUser", user, id, <<>>,
          Tracking_assertExecutorIsUser(DB, id, user))

ProfileCreate ==
  /\ Idle
  /\ CanCreate
  /\ \E user \in Users, name \in Texts, contact \in OptTexts, bio \in OptTexts :
       Do("Profiling.create", user, nextId, <<name, contact, bio>>,
          Profiling_create(DB, user, name, contact, bio))

ProfileUpdate ==
  /\ Idle
  /\ \E user \in Users, name \in OptTexts, contact \in OptTexts, bio \in OptTexts :
       Do("Profiling.update", user, NoId, <<name, contact, bio>>,
          Profiling_update(DB, user, name, contact, bio))

ProfileDelete ==
  /\ Idle
  /\ \E user \in Users :
       Do("Profiling.delete", user, NoId, <<>>, Profiling_delete(DB, user))

(***************************************************************************)
(* Requests, each handled in one step (of a request only the route, the    *)
(* session user, the id and the outcome are kept in ret)                   *)
(***************************************************************************)
CreateTask ==
  /\ Idle
  /\ CanCreate
  /\ \E user \in Users, title \in {"hi", ""}, description \in {"hi"} :
       Do("createTask", user, nextId, <<>>,
          Routes_createTask(DB, user, title, description))

UpdateTask ==
  /\ Idle
  /\ \E user \in Users, id \in SomeIds, title \in {Undef, "yo"},
        description \in {Undef}, status \in {Undef, "complete", "bogus"} :
       Do("updateTask", user, id, <<>>,
          Routes_updateTask(DB, user, id, title, description, status))

DeleteTask ==
  /\ Idle
  /\ \E user \in Users, id \in SomeIds :
       Do("deleteTask", user, id, <<>>, Routes_deleteTask(DB, user, id))

CreateGoal ==
  /\ Idle
  /\ CanCreate
  /\ \E user \in Users, title \in {"hi"}, due \in Dates,
        description \in {Undef} :
       Do("createGoal", user, nextId, <<>>,
          Routes_createGoal(DB, now, user, title, due, description))

UpdateGoal ==
  /\ Idle
  /\ \E user \in Users, id \in SomeIds, title \in {Undef, "yo"},
        description \in {Undef}, status \in {Undef, "complete"},
        due \in {NoDate} :
       Do("updateGoal", user, id, <<>>,
          Routes_updateGoal(DB, user, id, title, description, status, due))

WriteMessage ==
  /\ Idle
  /\ CanCreate
  /\ \E user \in Users, contactUser \in Users, message \in {"hi"} :
       Do("writeMessage", user, nextId, <<>>,
          Routes_writeMessage(DB, user, contactUser, message))

SendMessage ==
  /\ Idle
  /\ CanCreate
  /\ \E user \in Users, id \in SomeIds :
       Do("sendMessage", user, id, <<>>, Routes_sendMessage(DB, user, id))

EditMessage ==
  /\ Idle
  /\ \E user \in Users, id \in SomeIds, contact \in OptUsers,
        message \in {Undef, "yo"} :
       Do("editMessage", user, id, <<>>,
          Routes_editMessage(DB, user, id, contact, message))

DeleteMessage ==
  /\ Idle
  /\ \E user \in Users, id \in SomeIds :
       Do("deleteMessage", user, id, <<>>, Routes_deleteMessage(DB, user, id))

(***************************************************************************)
(* Profile requests, interleaved at their awaited store calls.  pc maps    *)
(* each request slot to the request it holds: its route and arguments,     *)
(* the store call it is at, the update Profiling.update has computed from  *)
(* the profile it read, and, once it has ended, its outcome.               *)
(***************************************************************************)
Slots == {"r1", "r2"}

NoFields == [name |-> Undef, contact |-> Undef, bio |-> Undef]

IdleRequest ==
  [route |-> "none", user |-> Undef, name |-> Undef, contact |-> Undef,
   bio |-> Undef, at |-> "idle", fields |-> NoFields, err |-> Ok]

InitProfiles ==
  /\ items = {}
  /\ goals = {}
  /\ profiles = {}
  /\ messages = {}
  /\ nextId = 1
  /\ idLimit = MaxIds
  /\ now = 1
  /\ ret = NoCall
  /\ pc = [s \in Slots |-> IdleRequest]

\* requests in flight that may still create a profile
Creating == {s \in Slots : pc[s].route = "createProfile"
                           /\ pc[s].at \in {"assert", "create"}}

Others == <<items, goals, messages, idLimit, now, ret>>

StartCreateProfile(s) ==
  /\ pc[s].at = "idle"
  /\ nextId + Cardinality(Creating) <= idLimit
  /\ \E user \in Users, name \in {"hi"} :
       pc' = [pc EXCEPT ![s] = [IdleRequest EXCEPT !.route = "createProfile",
                                  !.user = user, !.name = name, !.at = "assert"]]
  /\ UNCHANGED <<profiles, nextId, Others>>

StartUpdateProfile(s) ==
  /\ pc[s].at = "idle"
  /\ \E user \in Users, name \in {Undef, "yo"}, bio \in {Undef, "yo"} :
       pc' = [pc EXCEPT ![s] = [IdleRequest EXCEPT !.route = "updateProfile",
                                  !.user = user, !.name = name, !.bio = bio,
                                  !.at = "assert"]]
  /\ UNCHANGED <<profiles, nextId, Others>>

StartDeleteProfile(s) ==
  /\ pc[s].at = "idle"
  /\ \E user \in Users :
       pc' = [pc EXCEPT ![s] = [IdleRequest EXCEPT !.route = "deleteProfile",
                                  !.user = user, !.at = "assert"]]
  /\ UNCHANGED <<profiles, nextId, Others>>

\* the request in slot s ends with error err
Throw(s, err) == [pc EXCEPT ![s].at = "done", ![s].err = err]

\* await Profiling.assertProfileDoesNotExist(user) / assertProfileExists(user)
AssertProfileStep(s) ==
  /\ pc[s].at = "assert"
  /\ LET r == pc[s]
         a == IF r.route = "createProfile"
              THEN Profiling_assertProfileDoesNotExist(DB, r.user)
              ELSE Profiling_assertProfileExists(DB, r.user)
     IN  pc' = IF a.err # Ok THEN Throw(s, a.err)
               ELSE [pc EXCEPT ![s].at =
                       CASE r.route = "createProfile" -> "create"
                         [] r.route = "updateProfile" -> "view"
                         [] OTHER -> "delete"]
  /\ UNCHANGED <<profiles, nextId, Others>>

\* await Profiling.create(user, name, contact, bio)
CreateProfileStep(s) ==
  /\ pc[s].at = "create"
  /\ LET r == pc[s]
         c == Profiling_create(DB, r.user, r.name, r.contact, r.bio)
     IN  /\ profiles' = c.db.profiles
         /\ nextId' = c.db.nextId
  /\ pc' = [pc EXCEPT ![s].at = "done"]
  /\ UNCHANGED Others

\* Profiling.update: const userProfile = await this.viewProfile(user)
ViewProfileStep(s) ==
  /\ pc[s].at = "view"
  /\ LET r == pc[s]
     IN  pc' = IF ~ExistsByUser(profiles, r.user)
               THEN Throw(s, "AssertionError")
               ELSE [pc EXCEPT ![s].at = "write",
                               ![s].fields =
                                 Profiling_updateFields(
                                   ReadOneByUser(profiles, r.user),
                                   r.name, r.contact, r.bio)]
  /\ UNCHANGED <<profiles, nextId, Others>>

\* Profiling.update: await this.profiles.partialUpdateOne({ user }, updateFields)
WriteProfileStep(s) ==
  /\ pc[s].at = "write"
  /\ profiles' = PartialUpdateOneByUser(profiles, pc[s].user, pc[s].fields)
  /\ pc' = [pc EXCEPT ![s].at = "done"]
  /\ UNCHANGED <<nextId, Others>>

\* await Profiling.delete(user)
DeleteProfileStep(s) ==
  /\ pc[s].at = "delete"
  /\ profiles' = Profiling_delete(DB, pc[s].user).db.profiles
  /\ pc' = [pc EXCEPT ![s].at = "done"]
  /\ UNCHANGED <<nextId, Others>>

\* the response is sent and the slot is free again
Respond(s) ==
  /\ pc[s].at = "done"
  /\ pc' = [pc EXCEPT ![s] = IdleRequest]
  /\ UNCHANGED <<profiles, nextId, Others>>

NextProfiles ==
  \E s \in Slots :
    \/ StartCreateProfile(s)
    \/ StartUpdateProfile(s)
    \/ StartDeleteProfile(s)
    \/ AssertProfileStep(s)
    \/ CreateProfileStep(s)
    \/ ViewProfileStep(s)
    \/ WriteProfileStep(s)
    \/ DeleteProfileStep(s)
    \/ Respond(s)

\* createProfile, updateProfile and deleteProfile requests, two at a time
SpecProfiles == InitProfiles /\ [][NextProfiles]_vars

(***************************************************************************)
(* Specifications                                                          *)
(***************************************************************************)
NextMessaging ==
  \/ Draft
  \/ EditDraft
  \/ DeleteDraft
  \/ Send
  \/ EditSent
  \/ DeleteSent
  \/ Return

\* the MessagingConcept operations, called in any order with any arguments
SpecMessaging == Init /\ [][NextMessaging]_vars

SpecMessagingDeep == InitDeep /\ [][NextMessaging]_vars

NextConcepts ==
  \/ NextMessaging
  \/ ItemCreate
  \/ ItemUpdate
  \/ ItemDelete
  \/ GoalCreate
  \/ GoalEdit
  \/ GoalDelete
  \/ ProfileCreate
  \/ ProfileUpdate
  \/ ProfileDelete

\* the operations of the four concepts, called in any order
Spec == Init /\ [][NextConcepts]_vars

NextRoutes ==
  \/ CreateTask
  \/ UpdateTask
  \/ DeleteTask
  \/ CreateGoal
  \/ UpdateGoal
  \/ WriteMessage
  \/ SendMessage
  \/ EditMessage
  \/ DeleteMessage
  \/ AssertCreatorIsUser
  \/ AssertExecutorIsUser
  \/ AssertUserIsSender
  \/ Return

\* the item, goal and message requests, one at a time, and the ownership
\* assertions called on the states they reach
SpecRoutes == Init /\ [][NextRoutes]_vars

SpecRoutesDeep == InitDeep /\ [][NextRoutes]_vars

SpecDeep == InitDeep /\ [][NextConcepts]_vars

(***************************************************************************)
(* Properties of the MessagingConcept operations                           *)
(***************************************************************************)
Flags(m) == {f \in {"draft", "sent", "received"} : m[f]}

\* the call that has just ended named a document that was stored before it
OnStored(coll) == Exists(coll, ret'.id)

\* C1: every stored message has exactly one of the flags draft, sent,
\* received set to true, whatever MessagingConcept operations were called.
C1_ExactlyOneFlag == \A m \in messages : Cardinality(Flags(m)) = 1

\* r is a draft as Messaging.draft stores it
IsNewDraft(r) ==
  r = [MessageDoc(r._id, r.from, r.to, r.message, r.attachment)
         EXCEPT !.draft = TRUE, !.timeDrafted = "date"]

\* C2: send(id, A, B) on the draft that draft(A, B, t) stored leaves the
\* original document sent, from A to B with text t, and exactly one document
\* received, from A to B with text t, for it; the two name each other in
\* receivedMessageID and sentMessageID.
C2_DraftThenSend ==
  [][(/\ ret'.op = "send"
      /\ OnStored(messages)
      /\ IsNewDraft(ReadOne(messages, ret'.id))
      /\ ret'.args = <<ReadOne(messages, ret'.id).from,
                       ReadOne(messages, ret'.id).to>>)
     => LET d == ReadOne(messages, ret'.id)
            copies == {r \in messages' : r.sentMessageID = d._id}
        IN  /\ ret'.err = Ok
            /\ Exists(messages', d._id)
            /\ Cardinality(copies) = 1
            /\ \A s \in {ReadOne(messages', d._id)}, r \in copies :
                 /\ s._id # r._id
                 /\ Flags(s) = {"sent"}
                 /\ Flags(r) = {"received"}
                 /\ s.from = d.from /\ s.to = d.to /\ s.message = d.message
                 /\ r.from = d.from /\ r.to = d.to /\ r.message = d.message
                 /\ s.receivedMessageID = r._id
                 /\ r.sentMessageID = s._id]_vars

\* a first draft has just been sent: the store holds its two copies only
C2_Witness ==
  /\ ret.op = "send" /\ ret.err = Ok /\ ret.id = 1
  /\ nextId = 3
  /\ \E s \in messages, r \in messages :
       /\ messages = {s, r}
       /\ s._id = 1 /\ s.sent /\ r.received
       /\ s.receivedMessageID = r._id /\ r.sentMessageID = s._id
       /\ ret.args = <<s.from, s.to>>

\* C3: after editSent on a sent document, that document and the received
\* document its receivedMessageID names hold the same text (the new text when
\* one is given, the former text otherwise) and the same attachment.
C3_EditSentMirrors ==
  [][(/\ ret'.op = "editSent"
      /\ ret'.err = Ok
      /\ OnStored(messages)
      /\ ReadOne(messages, ret'.id).sent)
     => LET old == ReadOne(messages, ret'.id)
            s == ReadOne(messages', ret'.id)
            text == IF ret'.args[1] # Undef THEN ret'.args[1] ELSE old.message
        IN  /\ s.message = text
            /\ \A r \in messages' :
                 r._id = s.receivedMessageID
                   => r.message = text /\ r.attachment = s.attachment]_vars

\* editSent has just given a sent message and its received copy a new text
C3_Witness ==
  /\ ret.op = "editSent" /\ ret.err = Ok /\ ret.args[1] # Undef
  /\ \E s \in messages, r \in messages :
       /\ s._id = ret.id /\ s.sent /\ r.received
       /\ s.receivedMessageID = r._id
       /\ s.message = ret.args[1] /\ r.message = ret.args[1]

\* C4: after deleteSent(user, id) succeeds on a sent message of sender user,
\* neither that document nor the received document its receivedMessageID
\* names is stored.
C4_DeleteSentRemovesBoth ==
  [][(/\ ret'.op = "deleteSent"
      /\ ret'.err = Ok
      /\ OnStored(messages)
      /\ ReadOne(messages, ret'.id).sent
      /\ ReadOne(messages, ret'.id).from = ret'.user)
     => /\ ~Exists(messages', ret'.id)
        /\ ~Exists(messages', ReadOne(messages, ret'.id).receivedMessageID)]_vars

\* C5: send and editDraft (and the routes sendMessage and editMessage) on a
\* stored message that is not a draft end with NotADraftError and leave the
\* messages as they were.
C5_NotADraft ==
  [][(/\ ret'.op \in {"send", "editDraft", "sendMessage", "editMessage"}
      /\ OnStored(messages)
      /\ ~ReadOne(messages, ret'.id).draft)
     => ret'.err = "NotADraftError" /\ messages' = messages]_vars

\* C6: the profile collection holds at most one profile per user, in every
\* state that interleaved createProfile, updateProfile and deleteProfile
\* requests reach.
C6_OneProfilePerUser ==
  \A u \in Users : Cardinality(ByUser(profiles, u)) <= 1

(***************************************************************************)
(* Properties of the requests and of the ownership assertions              *)
(***************************************************************************)
Unchanged == UNCHANGED <<items, goals, profiles, messages>>

\* the session user of the request that has just ended is not the owner of
\* the stored document it named
NotOwner ==
  \/ /\ ret'.op \in {"updateTask", "deleteTask"}
     /\ OnStored(items)
     /\ ReadOne(items, ret'.id).creator # ret'.user
  \/ /\ ret'.op \in {"updateGoal"}
     /\ OnStored(goals)
     /\ ReadOne(goals, ret'.id).executor # ret'.user
  \/ /\ ret'.op \in {"sendMessage", "editMessage", "deleteMessage"}
     /\ OnStored(messages)
     /\ ReadOne(messages, ret'.id).from # ret'.user

\* C7: updateTask, deleteTask, updateGoal, sendMessage, editMessage and
\* deleteMessage by a session user who is not the document's owner end with
\* an error of kind NotAllowed and create, change or remove no document.
C7_OwnerOnly ==
  [][NotOwner => Kind(ret'.err) = "NotAllowed" /\ Unchanged]_vars

\* a request of a user who is not the owner has just been refused
C7_Witness ==
  /\ ret.op \in {"updateTask", "deleteTask", "updateGoal", "sendMessage",
                 "editMessage", "deleteMessage"}
  /\ Kind(ret.err) = "NotAllowed"
  /\ \/ \E r \in items : r._id = ret.id /\ r.creator # ret.user
     \/ \E r \in goals : r._id = ret.id /\ r.executor # ret.user
     \/ \E r \in messages : r._id = ret.id /\ r.from # ret.user

\* the owners of the documents with the id that the assertion just called
\* was given (none, or the one owner of the one document)
Owners ==
  CASE ret'.op = "assertCreatorIsUser" ->
         {r.creator : r \in {q \in items : q._id = ret'.id}}
    [] ret'.op = "assertExecutorIsUser" ->
         {r.executor : r \in {q \in goals : q._id = ret'.id}}
    [] ret'.op = "assertUserIsSender" ->
         {r.from : r \in {q \in messages : q._id = ret'.id}}
    [] OTHER -> {}

\* C8: assertCreatorIsUser, assertExecutorIsUser and assertUserIsSender fail
\* with NotFound exactly when no document has the id, with NotAllowed exactly
\* when the document's owner is not the user, return normally otherwise, and
\* leave the store unchanged.
C8_AssertOwner ==
  [][ret'.op \in {"assertCreatorIsUser", "assertExecutorIsUser",
                  "assertUserIsSender"}
     => /\ Kind(ret'.err) = "NotFound" <=> Owners = {}
        /\ Kind(ret'.err) = "NotAllowed"
             <=> Owners # {} /\ ret'.user \notin Owners
        /\ ret'.err = Ok <=> ret'.user \in Owners
        /\ Unchanged]_vars

\* an ownership assertion has just refused a user who is not the owner
C8_Witness ==
  /\ ret.op \in {"assertCreatorIsUser", "assertExecutorIsUser",
                 "assertUserIsSender"}
  /\ Kind(ret.err) = "NotAllowed"
  /\ \/ \E r \in items : r._id = ret.id /\ r.creator # ret.user
     \/ \E r \in goals : r._id = ret.id /\ r.executor # ret.user
     \/ \E r \in messages : r._id = ret.id /\ r.from # ret.user

(***************************************************************************)
(* Properties of the update operations of the concepts                     *)
(***************************************************************************)
\* the update operation that has just ended found no document to update
NoDocument ==
  \/ ret'.op = "Itemizing.update" /\ ~OnStored(items)
  \/ ret'.op = "Tracking.edit" /\ ~OnStored(goals)
  \/ ret'.op = "Profiling.update" /\ ~ExistsByUser(profiles, ret'.user)
  \/ ret'.op \in {"editDraft", "editSent", "send"} /\ ~OnStored(messages)

\* C9: Itemizing.update, Tracking.edit, Profiling.update, editDraft, editSent
\* and send, called for a document that does not exist, end with an error of
\* kind NotFound and leave every collection unchanged.
C9_NotFound ==
  [][NoDocument => Kind(ret'.err) = "NotFound" /\ Unchanged]_vars

\* the update operation that has just ended was called with every optional
\* argument omitted, for a stored document it applies to
AllOmitted ==
  \/ /\ ret'.op = "Itemizing.update" /\ OnStored(items)
     /\ ret'.args = <<Undef, Undef, Undef>>
  \/ /\ ret'.op = "Tracking.edit" /\ OnStored(goals)
     /\ ret'.args = <<Undef, Undef, Undef, NoDate>>
  \/ /\ ret'.op = "Profiling.update" /\ ExistsByUser(profiles, ret'.user)
     /\ ret'.args = <<Undef, Undef, Undef>>
  \/ /\ ret'.op = "editDraft" /\ OnStored(messages)
     /\ ReadOne(messages, ret'.id).draft
     /\ ret'.args = <<Undef, Undef, Undef>>
  \/ /\ ret'.op = "editSent" /\ OnStored(messages)
     /\ ReadOne(messages, ret'.id).sent
     /\ ret'.args = <<Undef, Undef>>

\* C10: an update or edit with every optional field omitted leaves every
\* field of every document as it was.
C10_OmittedIsNoOp == [][AllOmitted => Unchanged]_vars

(***************************************************************************)
(* TrackingConcept: the reads and the sweep.  A read returns the documents *)
(* it found (goals) next to the database it leaves.                        *)
(***************************************************************************)
\* the clock stops at MaxTime
MaxTime == 3

Found(db, found) == [err |-> Ok, db |-> db, goals |-> found]

Tracking_viewGoals(db, executor) ==
  Found(db, {g \in db.goals : g.executor = executor})

Tracking_updateGoalStatuses_dueNow(db, currentDate) ==
  Res(Ok, [db EXCEPT !.goals =
             {IF g.status = "pending" /\ g.due <= currentDate
              THEN SetFields(g, [status |-> "past due"]) ELSE g : g \in @}])

\* pendingGoals is read once; each overdue one is then updated by its _id
Tracking_updateGoalStatuses(db, currentDate) ==
  Res(Ok, [db EXCEPT !.goals =
             {IF g.status = "pending" /\ g.due < currentDate
              THEN SetFields(g, [status |-> "past due"]) ELSE g : g \in @}])

Tracking_viewStatus_sweeping(db, executor, status) ==
  LET swept == Tracking_updateGoalStatuses(db, MaxTime).db
  IN  Found(swept, {g \in swept.goals :
                      g.executor = executor /\ g.status = status})

Tracking_viewStatus(db, executor, status) ==
  Found(db, {g \in db.goals : g.executor = executor /\ g.status = status})

Tracking_viewOneGoal(db, id) == Found(db, {g \in db.goals : g._id = id})

Routes_getPending(db, user) == Tracking_viewStatus(db, user, "pending")

Routes_getComplete(db, user) == Tracking_viewStatus(db, user, "complete")

Routes_getPastDue(db, user) == Tracking_viewStatus(db, user, "past due")

(***************************************************************************)
(* Goals over time: the concept's operations and the goal requests, one at *)
(* a time, while the clock advances.                                       *)
(***************************************************************************)
\* time passes between two calls
Tick ==
  /\ Idle
  /\ now < MaxTime
  /\ now' = now + 1
  /\ UNCHANGED <<items, goals, profiles, messages, nextId, idLimit, ret, pc>>

GoalCreateDue ==
  /\ Idle
  /\ CanCreate
  /\ \E executor \in Users, due \in Dates :
       Do("Tracking.create", Undef, nextId, <<executor, "hi", due, Undef>>,
          Tracking_create(DB, now, executor, "hi", due, Undef))

GoalEditStatus ==
  /\ Idle
  /\ \E id \in SomeIds, status \in GOAL_TYPES \cup {Undef},
        due \in Dates \cup {NoDate} :
       Do("Tracking.edit", Undef, id, <<Undef, Undef, status, due>>,
          Tracking_edit(DB, id, Undef, Undef, status, due))

\* args: the ids of the pending goals that the sweep read
UpdateGoalStatuses ==
  /\ Idle
  /\ Do("updateGoalStatuses", Undef, NoId,
          <<{g._id : g \in {q \in goals : q.status = "pending"}}>>,
          Tracking_updateGoalStatuses(DB, now))

ViewGoals ==
  /\ Idle
  /\ \E executor \in Users :
       LET r == Tracking_viewGoals(DB, executor)
       IN  Do("viewGoals", executor, NoId, <<"any", r.goals>>, r)

ViewStatus ==
  /\ Idle
  /\ \E executor \in Users, status \in GOAL_TYPES :
       LET r == Tracking_viewStatus(DB, executor, status)
       IN  Do("viewStatus", executor, NoId, <<status, r.goals>>, r)

ViewOneGoal ==
  /\ Idle
  /\ \E id \in SomeIds :
       LET r == Tracking_viewOneGoal(DB, id)
       IN  Do("viewOneGoal", Undef, id, <<"any", r.goals>>, r)

GetPending ==
  /\ Idle
  /\ \E user \in Users :
       LET r == Routes_getPending(DB, user)
       IN  Do("getPending", user, NoId, <<"pending", r.goals>>, r)

GetComplete ==
  /\ Idle
  /\ \E user \in Users :
       LET r == Routes_getComplete(DB, user)
       IN  Do("getComplete", user, NoId, <<"complete", r.goals>>, r)

GetPastDue ==
  /\ Idle
  /\ \E user \in Users :
       LET r == Routes_getPastDue(DB, user)
       IN  Do("getPastDue", user, NoId, <<"past due", r.goals>>, r)

\* a PATCH /goals/:id request: status and due are whatever strings it carries
UpdateGoalFields ==
  /\ Idle
  /\ \E user \in Users, id \in SomeIds,
        status \in {Undef, "complete", "done"}, due \in {NoDate, 2} :
       Do("updateGoal", user, id, <<>>,
          Routes_updateGoal(DB, user, id, Undef, Undef, status, due))

NextGoals ==
  \/ GoalCreateDue
  \/ GoalEditStatus
  \/ CreateGoal
  \/ UpdateGoalFields
  \/ UpdateGoalStatuses
  \/ ViewGoals
  \/ ViewStatus
  \/ ViewOneGoal
  \/ GetPending
  \/ GetComplete
  \/ GetPastDue
  \/ Tick
  \/ Return

\* the goals of the users, through the concept and through the requests
SpecGoals == Init /\ [][NextGoals]_vars

(***************************************************************************)
(* Properties of the goals                                                 *)
(***************************************************************************)
\* C11: Tracking.create stores the new goal as 'past due' when its due date
\* is strictly before the time of the call and as 'pending' otherwise (a due
\* date equal to the time of the call included), never as 'complete'.
C11_CreateStatus ==
  [][ret'.op = "Tracking.create"
     => /\ ~Exists(goals, ret'.id)
        /\ Exists(goals', ret'.id)
        /\ LET g == ReadOne(goals', ret'.id)
           IN  /\ g.due = ret'.args[3]
               /\ g.due < now => g.status = "past due"
               /\ g.due >= now => g.status = "pending"
               /\ g.status # "complete"]_vars

\* a goal has just been created with a due date equal to the time of the call
C11_Witness ==
  /\ ret.op = "Tracking.create"
  /\ \E g \in goals : g._id = ret.id /\ g.due = now /\ g.status = "pending"

\* C12: after a sweep (updateGoalStatuses run alone) every goal that was
\* pending and overdue when it started is 'past due', every other goal is
\* unchanged in all fields, and no goal is pending with a due date before
\* the start of the sweep.
C12_SweepMarksOverdue ==
  [][ret'.op = "updateGoalStatuses"
     => /\ ret'.err = Ok
        /\ {g._id : g \in goals'} = {g._id : g \in goals}
        /\ \A g \in goals :
             ReadOne(goals', g._id) =
               IF g.status = "pending" /\ g.due < now
               THEN [g EXCEPT !.status = "past due"] ELSE g
        /\ \A g \in goals' : ~(g.status = "pending" /\ g.due < now)]_vars

\* a sweep has just turned a goal that it read as pending into 'past due',
\* next to a goal it left alone
C12_Witness ==
  /\ ret.op = "updateGoalStatuses"
  /\ \E g \in goals : g._id \in ret.args[1] /\ g.status = "past due"
  /\ \E g \in goals : g.status # "past due"

GoalReads ==
  {"viewGoals", "viewStatus", "viewOneGoal",
   "getPending", "getComplete", "getPastDue"}

\* C13: viewGoals, viewStatus, viewOneGoal, getPending, getComplete and
\* getPastDue change no goal; a goal stored as 'pending' whose due date has
\* passed is returned by the reads for 'pending' and not by the reads for
\* 'past due'.
C13_ReadsChangeNothing ==
  [][ret'.op \in GoalReads
     => /\ ret'.err = Ok
        /\ UNCHANGED <<items, goals, profiles, messages>>
        /\ \A g \in goals :
             (g.status = "pending" /\ g.due < now /\ g.executor = ret'.user)
             => /\ ret'.args[1] = "pending" => g \in ret'.args[2]
                /\ ret'.args[1] = "past due" => g \notin ret'.args[2]]_vars

\* a read for 'pending' has just returned a goal whose due date has passed
C13_Witness ==
  /\ ret.op \in {"viewStatus", "getPending"}
  /\ ret.args[1] = "pending"
  /\ \E g \in goals : g \in ret.args[2] /\ g.status = "pending" /\ g.due < now

\* C15: every stored goal has one of the statuses 'pending', 'complete' and
\* 'past due', whatever goal requests and sweeps have been made.
C15_GoalStatusValid == \A g \in goals : g.status \in GOAL_TYPES

(***************************************************************************)
(* ItemizingConcept: the operations and the argument checks                *)
(***************************************************************************)
\* the status strings a caller may pass
StatusInputs == STATUS_TYPES \cup {Undef, "", "done"}

\* the argument is kept with the outcome, whatever the outcome
AssertValidStatus ==
  /\ Idle
  /\ \E status \in StatusInputs :
       LET r == Itemizing_assertValidStatus(DB, status)
       IN  /\ items' = r.db.items
           /\ goals' = r.db.goals
           /\ profiles' = r.db.profiles
           /\ messages' = r.db.messages
           /\ nextId' = r.db.nextId
           /\ ret' = [op |-> "assertValidStatus", user |-> Undef, id |-> NoId,
                      args |-> <<status>>, err |-> r.err]
  /\ UNCHANGED <<idLimit, now, pc>>

AssertValidItemDetails ==
  /\ Idle
  /\ \E title \in Texts \cup {Undef, ""}, description \in Texts \cup {Undef, ""} :
       LET r == Itemizing_assertValidItemDetails(DB, title, description)
       IN  /\ items' = r.db.items
           /\ goals' = r.db.goals
           /\ profiles' = r.db.profiles
           /\ messages' = r.db.messages
           /\ nextId' = r.db.nextId
           /\ ret' = [op |-> "assertValidItemDetails", user |-> Undef,
                      id |-> NoId, args |-> <<title, description>>,
                      err |-> r.err]
  /\ UNCHANGED <<idLimit, now, pc>>

NextItemizing ==
  \/ ItemCreate
  \/ ItemUpdate
  \/ ItemDelete
  \/ AssertCreatorIsUser
  \/ AssertValidStatus
  \/ AssertValidItemDetails
  \/ Return

\* the ItemizingConcept operations, called in any order with any arguments
SpecItemizing == Init /\ [][NextItemizing]_vars

\* C14: assertValidStatus fails with InvalidStatusError (NotAllowed) for every
\* status string other than 'complete' and 'in-progress', the empty string
\* included, and returns normally exactly for 'complete', 'in-progress' and
\* undefined.
C14_ValidStatus ==
  [][ret'.op = "assertValidStatus"
     => /\ ret'.err = Ok <=> ret'.args[1] \in STATUS_TYPES \cup {Undef}
        /\ ret'.err # Ok => /\ ret'.err = "InvalidStatusError"
                            /\ Kind(ret'.err) = "NotAllowed"
        /\ UNCHANGED <<items, goals, profiles, messages>>]_vars

(***************************************************************************)
(* Owners: the operations that write to existing items, goals and messages *)
(* (and the creations they need), called in any order, by any caller.      *)
(***************************************************************************)
OwnedItemCreate ==
  /\ Idle
  /\ CanCreate
  /\ \E creator \in Users :
       Do("Itemizing.create", Undef, nextId, <<>>,
          Itemizing_create(DB, creator, "hi", "hi", Undef))

OwnedItemUpdate ==
  /\ Idle
  /\ \E id \in SomeIds, title \in {Undef, "yo"},
        status \in {Undef, "complete"} :
       Do("Itemizing.update", Undef, id, <<>>,
          Itemizing_update(DB, id, title, Undef, status))

OwnedGoalCreate ==
  /\ Idle
  /\ CanCreate
  /\ \E executor \in Users, due \in Dates :
       Do("Tracking.create", Undef, nextId, <<>>,
          Tracking_create(DB, now, executor, "hi", due, Undef))

OwnedGoalEdit ==
  /\ Idle
  /\ \E id \in SomeIds, status \in {Undef, "pending"}, due \in {NoDate, 0} :
       Do("Tracking.edit", Undef, id, <<>>,
          Tracking_edit(DB, id, Undef, Undef, status, due))

OwnedDraft ==
  /\ Idle
  /\ CanCreate
  /\ \E from \in Users, to \in Users :
       Do("draft", Undef, nextId, <<>>,
          Messaging_draft(DB, from, to, "hi", Undef))

OwnedEditDraft ==
  /\ Idle
  /\ \E id \in SomeIds, message \in {Undef, "yo"}, to \in OptUsers :
       Do("editDraft", Undef, id, <<message, to, Undef>>,
          Messaging_editDraft(DB, id, message, to, Undef))

OwnedSend ==
  /\ Idle
  /\ CanCreate
  /\ \E id \in SomeIds, from \in Users, to \in Users :
       Do("send", Undef, id, <<>>, Messaging_send(DB, id, from, to))

OwnedEditSent ==
  /\ Idle
  /\ \E id \in SomeIds, message \in {Undef, "yo"} :
       Do("editSent", Undef, id, <<>>,
          Messaging_editSent(DB, id, message, Undef))

NextOwners ==
  \/ OwnedItemCreate
  \/ OwnedItemUpdate
  \/ OwnedGoalCreate
  \/ OwnedGoalEdit
  \/ UpdateGoalStatuses
  \/ OwnedDraft
  \/ OwnedEditDraft
  \/ OwnedSend
  \/ OwnedEditSent
  \/ Return

SpecOwners == Init /\ [][NextOwners]_vars

\* C16: no operation changes the creator of an item, the executor of a goal
\* or the from of a message that exists before and after it.
C16_OwnerImmutable ==
  [][/\ \A r \in items : \A q \in items' :
          q._id = r._id => q.creator = r.creator
     /\ \A r \in goals : \A q \in goals' :
          q._id = r._id => q.executor = r.executor
     /\ \A r \in messages : \A q \in messages' :
          q._id = r._id => q.from = r.from]_vars

\* editDraft has just given a message of one user the other user as contact
C16_Witness ==
  /\ ret.op = "editDraft"
  /\ ret.err = Ok
  /\ ret.args[2] # Undef
  /\ \E m \in messages : m._id = ret.id /\ m.to = ret.args[2] /\ m.from # m.to

(***************************************************************************)
(* Profile requests, one at a time                                         *)
(***************************************************************************)
CreateProfile ==
  /\ Idle
  /\ CanCreate
  /\ \E user \in Users, name \in Texts, bio \in OptTexts :
       Do("createProfile", user, nextId, <<>>,
          Routes_createProfile(DB, user, name, Undef, bio))

UpdateProfile ==
  /\ Idle
  /\ \E user \in Users, name \in OptTexts, contact \in OptTexts :
       Do("updateProfile", user, NoId, <<>>,
          Routes_updateProfile(DB, user, name, contact, Undef))

DeleteProfile ==
  /\ Idle
  /\ \E user \in Users :
       Do("deleteProfile", user, NoId, <<>>, Routes_deleteProfile(DB, user))

NextProfileRoutes ==
  \/ CreateProfile
  \/ UpdateProfile
  \/ DeleteProfile
  \/ Return

\* createProfile, updateProfile and deleteProfile requests, each run to its
\* end before the next starts
SpecProfileRoutes == InitDeep /\ [][NextProfileRoutes]_vars

\* C17: createProfile for a user without a profile succeeds and leaves that
\* user with exactly one profile; createProfile for a user who has a profile
\* ends with UserProfileExistsError and leaves the profiles as they were;
\* deleteProfile for a user who has a profile leaves that user without one
\* (so that a createProfile after it succeeds again).
C17_CreateAfterDelete ==
  [][/\ ret'.op = "createProfile"
        => IF ExistsByUser(profiles, ret'.user)
           THEN ret'.err = "UserProfileExistsError" /\ profiles' = profiles
           ELSE /\ ret'.err = Ok
                /\ Cardinality(ByUser(profiles', ret'.user)) = 1
                /\ profiles \subseteq profiles'
                /\ Cardinality(profiles') = Cardinality(profiles) + 1
     /\ (ret'.op = "deleteProfile" /\ ExistsByUser(profiles, ret'.user))
        => /\ ret'.err = Ok
           /\ ~ExistsByUser(profiles', ret'.user)
           /\ profiles' \subseteq profiles]_vars

\* a createProfile has just succeeded for a user whose earlier profile was
\* deleted (the other user still has the first profile created)
C17_Witness ==
  /\ ret.op = "createProfile"
  /\ ret.err = Ok
  /\ \E p \in profiles, q \in profiles :
       /\ q._id = 1 /\ q.user # ret.user
       /\ p._id = 3 /\ p.user = ret.user

(***************************************************************************)
(* MessagingConcept: the operations and the two assertions on the user     *)
(***************************************************************************)
NextMessagingAsserts ==
  \/ NextMessaging
  \/ AssertUserIsSender
  \/ AssertSenderOrReceiver

SpecMessagingAsserts == Init /\ [][NextMessagingAsserts]_vars

\* C18: assertSenderOrReceiver fails with NotFound when no message has the
\* id; on a stored message it fails with UserNotMatchError exactly when the
\* user is neither its from nor its to, and returns normally for its sender
\* and for its receiver.
C18_SenderOrReceiver ==
  [][ret'.op = "assertSenderOrReceiver"
     => /\ UNCHANGED <<items, goals, profiles, messages>>
        /\ IF ~Exists(messages, ret'.id)
           THEN Kind(ret'.err) = "NotFound"
           ELSE LET m == ReadOne(messages, ret'.id)
                IN  /\ ret'.err = "UserNotMatchError"
                         <=> ret'.user \notin {m.from, m.to}
                    /\ ret'.err = Ok <=> ret'.user \in {m.from, m.to}]_vars

(***************************************************************************)
(* Message requests with sendMessage interleaved at its awaited store      *)
(* calls.  pc maps each request slot to the sendMessage request it holds:  *)
(* its session user and message id, the call it is at, what it has read    *)
(* (the route's messageObj: draft, to; send's messageObj: message,         *)
(* attachment), the id of the received copy it has created and, once it    *)
(* has ended, its outcome.  writeMessage, editMessage and deleteMessage     *)
(* requests run between these steps.                                       *)
(***************************************************************************)
IdleSend ==
  [route |-> "none", user |-> Undef, id |-> NoId, at |-> "idle",
   draft |-> FALSE, to |-> Undef, message |-> Undef, attachment |-> Undef,
   receivedMessageID |-> NoId, err |-> Ok]

InitSends ==
  /\ items = {}
  /\ goals = {}
  /\ profiles = {}
  /\ messages = {}
  /\ nextId = 1
  /\ idLimit = MaxIdsDeep
  /\ now = 1
  /\ ret = NoCall
  /\ pc = [s \in Slots |-> IdleSend]

\* requests in flight that may still create a received copy
Sending == {s \in Slots : pc[s].at \in {"read", "assert", "sendRead",
                                        "sendCreate"}}

SendFrame == <<items, goals, profiles, idLimit, now, ret>>

StartSendMessage(s) ==
  /\ pc[s].at = "idle"
  /\ nextId + Cardinality(Sending) <= idLimit
  /\ \E user \in Users, id \in SomeIds :
       pc' = [pc EXCEPT ![s] = [IdleSend EXCEPT !.route = "sendMessage",
                                  !.user = user, !.id = id, !.at = "read"]]
  /\ UNCHANGED <<messages, nextId, SendFrame>>

\* const messageObj = await Messaging.read(userID, messageID)
ReadMessageStep(s) ==
  /\ pc[s].at = "read"
  /\ pc' = IF ~Exists(messages, pc[s].id) THEN Throw(s, "NotAllowedError")
           ELSE LET messageObj == Messaging_read(DB, pc[s].id)
                IN  [pc EXCEPT ![s].at = "assert",
                               ![s].draft = messageObj.draft,
                               ![s].to = messageObj.to]
  /\ UNCHANGED <<messages, nextId, SendFrame>>

\* await Messaging.assertUserIsSender(userID, messageID), then the test of
\* messageObj.draft
AssertSenderStep(s) ==
  /\ pc[s].at = "assert"
  /\ LET a == Messaging_assertUserIsSender(DB, pc[s].user, pc[s].id)
     IN  pc' = IF a.err # Ok THEN Throw(s, a.err)
               ELSE IF ~pc[s].draft THEN Throw(s, "NotADraftError")
               ELSE [pc EXCEPT ![s].at = "sendRead"]
  /\ UNCHANGED <<messages, nextId, SendFrame>>

\* send: const messageObj = await this.messages.readOne({ _id })
SendReadStep(s) ==
  /\ pc[s].at = "sendRead"
  /\ pc' = IF ~Exists(messages, pc[s].id) THEN Throw(s, "AssertionError")
           ELSE LET messageObj == ReadOne(messages, pc[s].id)
                IN  [pc EXCEPT ![s].at = "sendCreate",
                               ![s].message = messageObj.message,
                               ![s].attachment = messageObj.attachment]
  /\ UNCHANGED <<messages, nextId, SendFrame>>

\* send: const receivedMessageID = await this.messages.createOne({ ... })
SendCreateStep(s) ==
  /\ pc[s].at = "sendCreate"
  /\ CanCreate
  /\ LET r == pc[s]
         receivedDoc ==
           [MessageDoc(nextId, r.user, r.to, r.message, r.attachment)
              EXCEPT !.received = TRUE, !.timeReceived = "date",
                     !.sentMessageID = r.id]
     IN  messages' = messages \cup {receivedDoc}
  /\ nextId' = nextId + 1
  /\ pc' = [pc EXCEPT ![s].at = "sendUpdate", ![s].receivedMessageID = nextId]
  /\ UNCHANGED SendFrame

\* send: await this.messages.partialUpdateOne({ _id }, { ... })
SendUpdateStep(s) ==
  /\ pc[s].at = "sendUpdate"
  /\ messages' = PartialUpdateOne(messages, pc[s].id,
                   [draft |-> FALSE, timeDrafted |-> Undef,
                    sent |-> TRUE, timeSent |-> "date",
                    receivedMessageID |-> pc[s].receivedMessageID])
  /\ pc' = [pc EXCEPT ![s].at = "done"]
  /\ UNCHANGED <<nextId, SendFrame>>

\* the response is sent and the slot is free again
RespondSend(s) ==
  /\ pc[s].at = "done"
  /\ pc' = [pc EXCEPT ![s] = IdleSend]
  /\ UNCHANGED <<messages, nextId, SendFrame>>

\* POST /messages while sends are in flight
WriteMessageBetween ==
  /\ Idle
  /\ nextId + Cardinality(Sending) <= idLimit
  /\ \E user \in Users, contactUser \in Users :
       Do("writeMessage", user, nextId, <<>>,
          Routes_writeMessage(DB, user, contactUser, "hi"))

\* the steps of the sendMessage request in slot s
SendMessageSteps(s) ==
  \/ StartSendMessage(s)
  \/ ReadMessageStep(s)
  \/ AssertSenderStep(s)
  \/ SendReadStep(s)
  \/ SendCreateStep(s)
  \/ SendUpdateStep(s)
  \/ RespondSend(s)

NextSends ==
  \/ \E s \in Slots : SendMessageSteps(s)
  \/ WriteMessageBetween
  \/ Return

\* sendMessage requests, two at a time, on the drafts that writeMessage
\* requests create
SpecSends == InitSends /\ [][NextSends]_vars

InitMessageRequests ==
  /\ items = {}
  /\ goals = {}
  /\ profiles = {}
  /\ messages = {}
  /\ nextId = 1
  /\ idLimit = MaxIds
  /\ now = 1
  /\ ret = NoCall
  /\ pc = [s \in Slots |-> IdleSend]

NextMessageRequests ==
  \/ SendMessageSteps("r1")
  \/ WriteMessageBetween
  \/ EditMessage
  \/ DeleteMessage
  \/ Return

\* a sendMessage request, step by step, with writeMessage, editMessage and
\* deleteMessage requests between its steps
SpecMessageRequests == InitMessageRequests /\ [][NextMessageRequests]_vars

\* C19: every sent message has a receivedMessageID that is the id of a stored
\* received message whose sentMessageID is the sent message's id, in every
\* state that the message requests reach, the states between the store
\* calls of send included.
C19_SentHasReceivedCopy ==
  \A m \in messages :
    m.sent => \E c \in messages : /\ c._id = m.receivedMessageID
                                  /\ c.received
                                  /\ c.sentMessageID = m._id

\* C20: whatever the interleaving of sendMessage requests, no message has
\* more than one received copy (a received message whose sentMessageID is
\* its id).
C20_OneReceivedCopy ==
  \A m \in messages :
    Cardinality({c \in messages :
                   c.received /\ c.sentMessageID = m._id}) <= 1

(***************************************************************************)
(* editMessage requests on drafts, sent messages and received copies.  The *)
(* request's contact and message are kept with its outcome.                *)
(***************************************************************************)
EditMessageFields ==
  /\ Idle
  /\ \E user \in Users, id \in SomeIds, contact \in OptUsers,
        message \in OptTexts :
       LET r == Routes_editMessage(DB, user, id, contact, message)
       IN  /\ items' = r.db.items
           /\ goals' = r.db.goals
           /\ profiles' = r.db.profiles
           /\ messages' = r.db.messages
           /\ nextId' = r.db.nextId
           /\ ret' = [op |-> "editMessage", user |-> user, id |-> id,
                      args |-> <<contact, message>>, err |-> r.err]
  /\ UNCHANGED <<idLimit, now, pc>>

NextEditMessage ==
  \/ Draft
  \/ SendMessage
  \/ EditMessageFields
  \/ Return

\* drafts (with and without attachment), sendMessage and editMessage requests
SpecEditMessage == Init /\ [][NextEditMessage]_vars

\* C21: an editMessage request of the sender on a draft, with a new message
\* text and no contact, leaves the draft's to and attachment as they were and
\* changes only its message.
C21_EditTextKeepsRecipient ==
  [][(/\ ret'.op = "editMessage"
      /\ ret'.args[1] = Undef
      /\ ret'.args[2] # Undef
      /\ OnStored(messages)
      /\ ReadOne(messages, ret'.id).draft
      /\ ReadOne(messages, ret'.id).from = ret'.user)
     => /\ ret'.err = Ok
        /\ messages' =
             PartialUpdateOne(messages, ret'.id, [message |-> ret'.args[2]])]_vars

\* C22: no editMessage request changes the to of a sent message or of a
\* received copy, whichever id it names and whether or not it has a contact.
C22_SentRecipientFixed ==
  [][ret'.op = "editMessage"
     => \A m \in messages : \A q \in messages' :
          (q._id = m._id /\ (m.sent \/ m.received)) => q.to = m.to]_vars

(***************************************************************************)
(* Task requests, one at a time, with whatever fields the request carries  *)
(***************************************************************************)
CreateTaskFields ==
  /\ Idle
  /\ CanCreate
  /\ \E user \in Users, title \in {"hi", "", Undef},
        description \in {"hi", "", Undef} :
       Do("createTask", user, nextId, <<>>,
          Routes_createTask(DB, user, title, description))

UpdateTaskFields ==
  /\ Idle
  /\ \E user \in Users, id \in SomeIds, title \in {Undef, "", "yo"},
        description \in {Undef, "", "yo"}, status \in {Undef, "complete", "done"} :
       Do("updateTask", user, id, <<>>,
          Routes_updateTask(DB, user, id, title, description, status))

NextTasks ==
  \/ CreateTaskFields
  \/ UpdateTaskFields
  \/ DeleteTask
  \/ Return

SpecTasks == Init /\ [][NextTasks]_vars

\* C23: every stored item has a non-empty title and a non-empty description,
\* whatever createTask, updateTask and deleteTask requests have been made.
C23_ItemDetailsNonEmpty ==
  \A i \in items : ~Falsy(i.title) /\ ~Falsy(i.description)

(***************************************************************************)
(* Itemizing.update calls interleaved at their awaited store calls.  pc    *)
(* maps each slot to the call it holds: its arguments, the store call it   *)
(* is at, the updateFields it has computed from the item it read and,     *)
(* once it has ended, its outcome.                                         *)
(***************************************************************************)
\* the update written by Itemizing.update, given the item it has read
Itemizing_updateFields(item, title, description, status) ==
  [title |-> IF title = Undef THEN item.title ELSE title,
   description |-> IF description = Undef THEN item.description ELSE description,
   status |-> IF status = Undef THEN item.status ELSE status]

NoItemFields == [title |-> Undef, description |-> Undef, status |-> Undef]

IdleUpdate ==
  [op |-> "none", id |-> NoId, title |-> Undef, description |-> Undef,
   status |-> Undef, at |-> "idle", fields |-> NoItemFields, err |-> Ok]

InitItemUpdates ==
  /\ items = {}
  /\ goals = {}
  /\ profiles = {}
  /\ messages = {}
  /\ nextId = 1
  /\ idLimit = MaxIds
  /\ now = 1
  /\ ret = NoCall
  /\ pc = [s \in Slots |-> IdleUpdate]

UpdateFrame == <<goals, profiles, messages, nextId, idLimit, now, ret>>

StartItemUpdate(s) ==
  /\ pc[s].at = "idle"
  /\ \E id \in SomeIds, title \in {Undef, "yo"}, description \in {Undef, "yo"} :
       pc' = [pc EXCEPT ![s] = [IdleUpdate EXCEPT !.op = "Itemizing.update",
                                  !.id = id, !.title = title,
                                  !.description = description,
                                  !.at = "read"]]
  /\ UNCHANGED <<items, UpdateFrame>>

\* const item = await this.items.readOne({ _id }); assert; updateFields
ItemReadStep(s) ==
  /\ pc[s].at = "read"
  /\ LET r == pc[s]
     IN  pc' = IF ~Exists(items, r.id) THEN Throw(s, "AssertionError")
               ELSE [pc EXCEPT ![s].at = "write",
                               ![s].fields =
                                 Itemizing_updateFields(
                                   ReadOne(items, r.id),
                                   r.title, r.description, r.status)]
  /\ UNCHANGED <<items, UpdateFrame>>

\* await this.items.partialUpdateOne({ _id }, updateFields)
ItemWriteStep(s) ==
  /\ pc[s].at = "write"
  /\ items' = PartialUpdateOne(items, pc[s].id, pc[s].fields)
  /\ pc' = [pc EXCEPT ![s].at = "done"]
  /\ UNCHANGED UpdateFrame

\* the call returns and the slot is free again
RespondItemUpdate(s) ==
  /\ pc[s].at = "done"
  /\ pc' = [pc EXCEPT ![s] = IdleUpdate]
  /\ UNCHANGED <<items, UpdateFrame>>

NextItemUpdates ==
  \/ \E s \in Slots :
       \/ StartItemUpdate(s)
       \/ ItemReadStep(s)
       \/ ItemWriteStep(s)
       \/ RespondItemUpdate(s)
  \/ OwnedItemCreate
  \/ Return

\* Itemizing.update calls, two at a time, on the items created
SpecItemUpdates == InitItemUpdates /\ [][NextItemUpdates]_vars

\* C24: when an update that gave only a title and an update that gave only a
\* description, both of the same stored item, have both returned, the item
\* has the new title and the new description.
C24_BothUpdatesKept ==
  \A s \in Slots, t \in Slots :
    (/\ pc[s].at = "done" /\ pc[s].err = Ok
     /\ pc[t].at = "done" /\ pc[t].err = Ok
     /\ pc[s].id = pc[t].id
     /\ pc[s].title # Undef /\ pc[s].description = Undef
     /\ pc[t].title = Undef /\ pc[t].description # Undef
     /\ Exists(items, pc[s].id))
    => /\ ReadOne(items, pc[s].id).title = pc[s].title
       /\ ReadOne(items, pc[s].id).description = pc[t].description

(***************************************************************************)
(* The sweep interleaved with Tracking.edit at their awaited store calls.  *)
(* pc.sweep is the sweep in progress: the call it is at, its currentDate   *)
(* and the pending goals it has read and not yet looked at; pc.edit is     *)
(* the edit in progress: its arguments, the call it is at and the          *)
(* updateFields it has computed from the goal it read.                     *)
(***************************************************************************)
\* the update written by Tracking.edit, given the goal it has read
Tracking_updateFields(goal, title, description, status, due) ==
  [title |-> IF title = Undef THEN goal.title ELSE title,
   description |-> IF description = Undef THEN goal.description ELSE description,
   status |-> IF status = Undef THEN goal.status ELSE status,
   due |-> IF due = NoDate THEN goal.due ELSE due]

IdleSweep == [at |-> "idle", currentDate |-> NoDate, pendingGoals |-> {}]

NoGoalFields ==
  [title |-> Undef, description |-> Undef, status |-> Undef, due |-> NoDate]

IdleEdit ==
  [at |-> "idle", id |-> NoId, status |-> Undef, due |-> NoDate,
   fields |-> NoGoalFields, err |-> Ok]

InitSweep ==
  /\ items = {}
  /\ goals = {}
  /\ profiles = {}
  /\ messages = {}
  /\ nextId = 1
  /\ idLimit = MaxIds
  /\ now = 1
  /\ ret = NoCall
  /\ pc = [sweep |-> IdleSweep, edit |-> IdleEdit]

SweepFrame == <<items, profiles, messages, nextId, idLimit, now, ret>>

\* const currentDate = new Date()
StartSweep ==
  /\ pc.sweep.at = "idle"
  /\ pc' = [pc EXCEPT !.sweep = [IdleSweep EXCEPT !.at = "read",
                                   !.currentDate = now]]
  /\ UNCHANGED <<goals, SweepFrame>>

\* const pendingGoals = await this.goals.readMany({ status: "pending" })
SweepReadStep ==
  /\ pc.sweep.at = "read"
  /\ pc' = [pc EXCEPT !.sweep.at = "write",
                      !.sweep.pendingGoals =
                        {g \in goals : g.status = "pending"}]
  /\ UNCHANGED <<goals, SweepFrame>>

\* the goals read that the loop has still to write
Overdue == {g \in pc.sweep.pendingGoals : g.due < pc.sweep.currentDate}

\* await this.goals.partialUpdateOne({ _id: goal._id }, { status: "past due" })
\* for the next overdue goal of pendingGoals
SweepWriteStep ==
  /\ pc.sweep.at = "write"
  /\ Overdue # {}
  /\ LET goal == First(Overdue)
     IN  /\ goals' = PartialUpdateOne(goals, goal._id, [status |-> "past due"])
         /\ pc' = [pc EXCEPT !.sweep.pendingGoals = Overdue \ {goal}]
  /\ UNCHANGED SweepFrame

\* the loop is over and the sweep returns
SweepReturn ==
  /\ pc.sweep.at = "write"
  /\ Overdue = {}
  /\ pc' = [pc EXCEPT !.sweep = IdleSweep]
  /\ UNCHANGED <<goals, SweepFrame>>

StartGoalEdit ==
  /\ pc.edit.at = "idle"
  /\ \E id \in SomeIds, status \in {Undef, "complete", "pending"},
        due \in {NoDate, 0} :
       pc' = [pc EXCEPT !.edit = [IdleEdit EXCEPT !.at = "read", !.id = id,
                                    !.status = status, !.due = due]]
  /\ UNCHANGED <<goals, SweepFrame>>

\* const goal = await this.goals.readOne({ _id }); null test; updateFields
GoalReadStep ==
  /\ pc.edit.at = "read"
  /\ LET r == pc.edit
     IN  pc' = IF ~Exists(goals, r.id) THEN Throw("edit", "NotFoundError")
               ELSE [pc EXCEPT !.edit.at = "write",
                               !.edit.fields =
                                 Tracking_updateFields(
                                   ReadOne(goals, r.id),
                                   Undef, Undef, r.status, r.due)]
  /\ UNCHANGED <<goals, SweepFrame>>

\* await this.goals.partialUpdateOne({ _id }, updateFields)
GoalWriteStep ==
  /\ pc.edit.at = "write"
  /\ goals' = PartialUpdateOne(goals, pc.edit.id, pc.edit.fields)
  /\ pc' = [pc EXCEPT !.edit.at = "done"]
  /\ UNCHANGED SweepFrame

\* the edit returns
RespondGoalEdit ==
  /\ pc.edit.at = "done"
  /\ pc' = [pc EXCEPT !.edit = IdleEdit]
  /\ UNCHANGED <<goals, SweepFrame>>

NextSweep ==
  \/ StartSweep
  \/ SweepReadStep
  \/ SweepWriteStep
  \/ SweepReturn
  \/ StartGoalEdit
  \/ GoalReadStep
  \/ GoalWriteStep
  \/ RespondGoalEdit
  \/ OwnedGoalCreate
  \/ Tick
  \/ Return

\* a sweep and an edit at a time, on the goals created, as time passes
SpecSweep == InitSweep /\ [][NextSweep]_vars

\* C25: a write of the sweep changes no goal that is not 'pending' when it
\* is written (a goal that an edit has made 'complete' is not made
\* 'past due').
C25_SweepWritesPendingOnly ==
  [][(pc.sweep.at = "write" /\ pc'.sweep # pc.sweep)
     => \A g \in goals : g.status # "pending" => g \in goals']_vars

=============================================================================
